---- MODULE Spec2Model ----
(***************************************************************************)
(* A model of mesh.hh (MUSIC): the rectangular mesh Meshvar / MeshvarBnd   *)
(* (the spec's RectField) and the nested grid collection GridHierarchy     *)
(* (the spec's LevelSet).                                                  *)
(*                                                                         *)
(* Two specifications share the module:                                    *)
(*   Spec       a GridHierarchy `gh`, a second one `gh2` made by           *)
(*              operator=, and the calls made on them;                     *)
(*   SpecField  two meshes `fa`, `fb` whose buffers live on `heap`.        *)
(* The refinement_hierarchy `rh` (the spec's RefinementLayout) has two     *)
(* more: SpecLayout, its construction from a configuration, and            *)
(* SpecAdjust, construction followed by adjust_level calls.  SpecPos is    *)
(* a short build of `gh` followed by cell_pos calls.                       *)
(***************************************************************************)
EXTENDS Integers, Sequences, FiniteSets, TLC

VARIABLES gh, gh2, call, fa, fb, heap, fcall, rh, lcall

vars == <<gh, gh2, call, fa, fb, heap, fcall, rh, lcall>>

(***************************************************************************)
(* Bounds of the model.                                                    *)
(***************************************************************************)
MaxBase == 2
MaxLevel == 2
MaxCalls == 3
MaxNbnd == 1
MaxFieldOps == 2
MaxFieldNbnd == 2

(***************************************************************************)
(* 32-bit words.  An `int` is its value; an `unsigned` is kept as the int  *)
(* with the same bit pattern (u >= 2^31 is u - 2^32), because integers in  *)
(* TLC are themselves 32-bit.  All conversions between int,                *)
(* unsigned and the low half of size_t keep the pattern.                   *)
(***************************************************************************)
MaxInt32 == 2147483646 + 1
MinInt32 == (0 - 2147483647) - 1

\* a + b modulo 2^32, on bit patterns
WrapAdd(a, b) ==
    IF a >= 0 /\ b >= 0
    THEN IF b > MaxInt32 - a THEN ((a + MinInt32) + b) + MinInt32 ELSE a + b
    ELSE IF a < 0 /\ b < 0
         THEN IF b < MinInt32 - a THEN ((a - MinInt32) + b) - MinInt32 ELSE a + b
         ELSE a + b

WrapNeg(b) == IF b = MinInt32 THEN MinInt32 ELSE 0 - b

\* a - b modulo 2^32
WrapSub(a, b) == WrapAdd(a, WrapNeg(b))

\* the unsigned quotient u / 2 of the pattern s
UDiv2(s) == IF s >= 0 THEN s \div 2 ELSE ((s \div 2) + 1) + MaxInt32

Pow2(i) == 2 ^ i

(***************************************************************************)
(* Values of real_t.  The template parameter is a floating type; the model *)
(* keeps a value exactly, as a fraction <<n, d>> in lowest terms with      *)
(* d >= 0 : <<1,0>> is +inf, <<-1,0>> is -inf and <<0,0>> is NaN, so that  *)
(* x / 0 is an ordinary value as it is in the code.                        *)
(***************************************************************************)
RECURSIVE GCD(_, _)
GCD(a, b) == IF b = 0 THEN a ELSE GCD(b, a % b)

Abs(x) == IF x < 0 THEN 0 - x ELSE x

Sign(x) == IF x < 0 THEN 0 - 1 ELSE IF x > 0 THEN 1 ELSE 0

Norm(n, d) ==
    IF d = 0 THEN <<Sign(n), 0>>
    ELSE LET g == GCD(Abs(n), Abs(d)) IN <<(Sign(d) * n) \div g, Abs(d) \div g>>

Zero == <<0, 1>>
One == <<1, 1>>

VAdd(x, y) ==
    IF x[2] = 0 /\ y[2] = 0 THEN (IF x[1] = y[1] THEN x ELSE <<0, 0>>)
    ELSE IF x[2] = 0 THEN x
    ELSE IF y[2] = 0 THEN y
    ELSE Norm(x[1] * y[2] + y[1] * x[2], x[2] * y[2])

VNeg(x) == <<0 - x[1], x[2]>>

VSub(x, y) == VAdd(x, VNeg(y))

VMul(x, y) == Norm(x[1] * y[1], x[2] * y[2])

VRecip(x) == <<x[2] * Sign(x[1]), Abs(x[1])>>

VDiv(x, y) == VMul(x, VRecip(y))

Ops == {"+=", "-=", "*=", "/="}

\* the compound assignment m_pdata[i] op= v
OpApply(op, x, y) ==
    CASE op = "+=" -> VAdd(x, y)
      [] op = "-=" -> VSub(x, y)
      [] op = "*=" -> VMul(x, y)
      [] op = "/=" -> VDiv(x, y)

(***************************************************************************)
(* What `new real_t[n]` holds: the array is not initialised, so its        *)
(* content is whatever the allocator hands out.  The model draws the       *)
(* content from Garbage, one draw per allocation.                          *)
(***************************************************************************)
Garbage == {Zero, <<7, 1>>}

NewArray(n, g) == [i \in 0 .. (n - 1) |-> g]

(***************************************************************************)
(* Meshvar and MeshvarBnd.  A mesh is the record of its members; m_pdata   *)
(* is the buffer, a function on the raw indices 0 .. m_nx*m_ny*m_nz - 1.   *)
(* m_nx, m_ny, m_nz are the extents of the buffer, border included.        *)
(***************************************************************************)
Meshvar(nx, ny, nz, offx, offy, offz, g) ==
    [m_nx |-> nx, m_ny |-> ny, m_nz |-> nz,
     m_offx |-> offx, m_offy |-> offy, m_offz |-> offz,
     m_pdata |-> NewArray(nx * ny * nz, g)]

MeshvarBnd(nbnd, nx, ny, nz, xoff, yoff, zoff, g) ==
    Meshvar(nx + 2 * nbnd, ny + 2 * nbnd, nz + 2 * nbnd, xoff, yoff, zoff, g)
        @@ [m_nbnd |-> nbnd]

\* the number of elements of the buffer, m_nx*m_ny*m_nz
count(m) == m.m_nx * m.m_ny * m.m_nz

\* MeshvarBnd::size(dim): the extent without the border
bnd_size(m, dim) ==
    IF dim = 0 THEN m.m_nx - 2 * m.m_nbnd
    ELSE IF dim = 1 THEN m.m_ny - 2 * m.m_nbnd
    ELSE m.m_nz - 2 * m.m_nbnd

mesh_offset(m, dim) ==
    IF dim = 0 THEN m.m_offx ELSE IF dim = 1 THEN m.m_offy ELSE m.m_offz

zero(m) == [m EXCEPT !.m_pdata = [i \in 0 .. (count(m) - 1) |-> Zero]]

(***************************************************************************)
(* MeshvarBnd::operator()(ix,iy,iz): the raw index of a logical index.     *)
(* The code computes it in size_t after converting ix+m_nbnd (an int);     *)
(* the result is congruent to this integer modulo 2^64, so it lies in the  *)
(* buffer exactly when this integer lies in 0 .. count-1.                  *)
(***************************************************************************)
Index(m, ix, iy, iz) ==
    ((ix + m.m_nbnd) * m.m_ny + (iy + m.m_nbnd)) * m.m_nz + (iz + m.m_nbnd)

InBuffer(m, f) == f >= 0 /\ f < count(m)

\* the logical index <<ix, iy, iz>> that the raw index f stands for
Logical(m, f) ==
    <<(f \div (m.m_ny * m.m_nz)) - m.m_nbnd,
      ((f \div m.m_nz) % m.m_ny) - m.m_nbnd,
      (f % m.m_nz) - m.m_nbnd>>

\* reading (*m)(ix,iy,iz); outside the buffer the read yields whatever lies there
ReadAt(m, ix, iy, iz, g) ==
    LET f == Index(m, ix, iy, iz)
    IN  IF InBuffer(m, f) THEN m.m_pdata[f] ELSE g

\* (*m)(ix,iy,iz) = v, for an index inside the buffer
WriteAt(m, ix, iy, iz, v) ==
    [m EXCEPT !.m_pdata[Index(m, ix, iy, iz)] = v]

\* the interior logical indices, 0 <= index < size(dim) on every axis
Interior(m) ==
    (0 .. (bnd_size(m, 0) - 1)) \X (0 .. (bnd_size(m, 1) - 1))
        \X (0 .. (bnd_size(m, 2) - 1))

\* every logical index of the buffer, border included
Ghosted(m) ==
    ((0 - m.m_nbnd) .. (bnd_size(m, 0) + m.m_nbnd - 1))
        \X ((0 - m.m_nbnd) .. (bnd_size(m, 1) + m.m_nbnd - 1))
        \X ((0 - m.m_nbnd) .. (bnd_size(m, 2) + m.m_nbnd - 1))

(***************************************************************************)
(* Meshvar::operator op= (const Meshvar& v): throws when the element       *)
(* counts differ, before anything is written; else combines raw index by   *)
(* raw index.                                                              *)
(***************************************************************************)
\* mesh_op with the check made on each extent instead of the element count
mesh_op_strict(m, v, op) ==
    IF v.m_nx # m.m_nx \/ v.m_ny # m.m_ny \/ v.m_nz # m.m_nz
    THEN [threw |-> TRUE, m |-> m]
    ELSE [threw |-> FALSE,
          m |-> [m EXCEPT !.m_pdata =
                    [i \in 0 .. (count(m) - 1) |->
                        OpApply(op, m.m_pdata[i], v.m_pdata[i])]]]

mesh_op(m, v, op) ==
    IF count(v) # count(m)
    THEN [threw |-> TRUE, m |-> m]
    ELSE [threw |-> FALSE,
          m |-> [m EXCEPT !.m_pdata =
                    [i \in 0 .. (count(m) - 1) |->
                        OpApply(op, m.m_pdata[i], v.m_pdata[i])]]]

(***************************************************************************)
(* MeshvarBnd::zero_bnd: three sweeps, one per axis, each over the whole   *)
(* ghosted extent of the other two axes, writing 0.0 to the low and to the *)
(* high border slab.  The result is the mesh and whether a write fell      *)
(* outside the buffer.                                                     *)
(***************************************************************************)
Lo(m) == (0 - m.m_nbnd) .. (0 - 1)

Full(m, dim) == (0 - m.m_nbnd) .. (bnd_size(m, dim) + m.m_nbnd - 1)

\* zero_bnd_targets with the high slab one cell too far out
zero_bnd_targets_shifted(m) ==
    LET nx == bnd_size(m, 0)
        ny == bnd_size(m, 1)
        nz == bnd_size(m, 2)
    IN  UNION {{<<i, j, k>>, <<nx - i, j, k>>} :
                    <<i, j, k>> \in Lo(m) \X Full(m, 1) \X Full(m, 2)}
        \cup UNION {{<<i, j, k>>, <<i, ny - j, k>>} :
                    <<i, j, k>> \in Full(m, 0) \X Lo(m) \X Full(m, 2)}
        \cup UNION {{<<i, j, k>>, <<i, j, nz - k>>} :
                    <<i, j, k>> \in Full(m, 0) \X Full(m, 1) \X Lo(m)}

\* the logical indices the three sweeps write
zero_bnd_targets(m) ==
    LET nx == bnd_size(m, 0)
        ny == bnd_size(m, 1)
        nz == bnd_size(m, 2)
    IN  UNION {{<<i, j, k>>, <<nx - 1 - i, j, k>>} :
                    <<i, j, k>> \in Lo(m) \X Full(m, 1) \X Full(m, 2)}
        \cup UNION {{<<i, j, k>>, <<i, ny - j - 1, k>>} :
                    <<i, j, k>> \in Full(m, 0) \X Lo(m) \X Full(m, 2)}
        \cup UNION {{<<i, j, k>>, <<i, j, nz - k - 1>>} :
                    <<i, j, k>> \in Full(m, 0) \X Full(m, 1) \X Lo(m)}

zero_bnd(m) ==
    LET w == {Index(m, t[1], t[2], t[3]) : t \in zero_bnd_targets(m)}
    IN  [m |-> [m EXCEPT !.m_pdata =
                    [f \in 0 .. (count(m) - 1) |->
                        IF f \in w THEN Zero ELSE m.m_pdata[f]]],
         outside |-> \E f \in w : ~InBuffer(m, f)]

(***************************************************************************)
(* The copy constructors, on meshes whose m_pdata is an address of the     *)
(* heap hp (a function from the addresses in use to buffers).              *)
(* Meshvar(const Meshvar&, bool copy_over) takes the members, allocates a  *)
(* buffer of its own and copies the elements only if copy_over.            *)
(***************************************************************************)
NewAddr(hp) == CHOOSE p \in 1 .. (Cardinality(DOMAIN hp) + 1) : p \notin DOMAIN hp

\* a copy constructor that takes the source's pointer instead of allocating
copy_mesh_shared(hp, m, copy_over, g) == [m |-> m, heap |-> hp]

copy_mesh(hp, m, copy_over, g) ==
    LET p == NewAddr(hp)
        n == m.m_nx * m.m_ny * m.m_nz
    IN  [m |-> [m EXCEPT !.m_pdata = p],
         heap |-> hp @@ (p :> IF copy_over
                              THEN [i \in 0 .. (n - 1) |-> hp[m.m_pdata][i]]
                              ELSE NewArray(n, g))]

(***************************************************************************)
(* GridHierarchy.  A hierarchy is the record of its members: m_nbnd,       *)
(* m_levelmin, m_pgrids (the meshes it owns, level i at place i+1 of the   *)
(* sequence) and the three vectors of absolute offsets.                    *)
(***************************************************************************)
GridHierarchy(nbnd) ==
    [m_nbnd |-> nbnd, m_levelmin |-> 0, m_pgrids |-> <<>>,
     m_xoffabs |-> <<>>, m_yoffabs |-> <<>>, m_zoffabs |-> <<>>]

get_grid(h, ilevel) == h.m_pgrids[ilevel + 1]

\* m_pgrids.size()-1; the model asks only on a hierarchy that holds a level
levelmax(h) == Len(h.m_pgrids) - 1

levelmin(h) == h.m_levelmin

offset(h, ilevel, idim) == mesh_offset(get_grid(h, ilevel), idim)

size(h, ilevel, idim) == bnd_size(get_grid(h, ilevel), idim)

offset_abs(h, ilevel, idim) ==
    IF idim = 0 THEN h.m_xoffabs[ilevel + 1]
    ELSE IF idim = 1 THEN h.m_yoffabs[ilevel + 1]
    ELSE h.m_zoffabs[ilevel + 1]

deallocate(h) ==
    [h EXCEPT !.m_pgrids = <<>>, !.m_xoffabs = <<>>, !.m_yoffabs = <<>>,
              !.m_zoffabs = <<>>, !.m_levelmin = 0]

\* the loop of create_base_hierarchy: levels 0 .. lmax pushed in turn
RECURSIVE PushBase(_, _, _, _)
PushBase(h, i, lmax, g) ==
    IF i > lmax THEN h
    ELSE PushBase(
            [h EXCEPT
                !.m_pgrids = Append(@,
                    zero(MeshvarBnd(h.m_nbnd, Pow2(i), Pow2(i), Pow2(i), 0, 0, 0, g))),
                !.m_xoffabs = Append(@, 0),
                !.m_yoffabs = Append(@, 0),
                !.m_zoffabs = Append(@, 0)],
            i + 1, lmax, g)

\* create_base_hierarchy without the release of what the hierarchy held
create_base_appends(h, lmax, g) ==
    [PushBase(h, 0, lmax, g) EXCEPT !.m_levelmin = lmax]

create_base_hierarchy(h, lmax, g) ==
    LET cleared == [deallocate(h) EXCEPT !.m_pgrids = <<>>, !.m_xoffabs = <<>>,
                                         !.m_yoffabs = <<>>, !.m_zoffabs = <<>>]
    IN  [PushBase(cleared, 0, lmax, g) EXCEPT !.m_levelmin = lmax]

Last(s) == s[Len(s)]

\* add_patch with the absolute offset not doubled
add_patch_undoubled(h, xoff, yoff, zoff, nx, ny, nz, g) ==
    [h EXCEPT
        !.m_pgrids = Append(@, zero(MeshvarBnd(h.m_nbnd, nx, ny, nz, xoff, yoff, zoff, g))),
        !.m_xoffabs = Append(@, WrapAdd(Last(@), xoff)),
        !.m_yoffabs = Append(@, WrapAdd(Last(@), yoff)),
        !.m_zoffabs = Append(@, WrapAdd(Last(@), zoff))]

add_patch(h, xoff, yoff, zoff, nx, ny, nz, g) ==
    [h EXCEPT
        !.m_pgrids = Append(@, zero(MeshvarBnd(h.m_nbnd, nx, ny, nz, xoff, yoff, zoff, g))),
        !.m_xoffabs = Append(@, WrapAdd(WrapAdd(Last(@), xoff), WrapAdd(Last(@), xoff))),
        !.m_yoffabs = Append(@, WrapAdd(WrapAdd(Last(@), yoff), WrapAdd(Last(@), yoff))),
        !.m_zoffabs = Append(@, WrapAdd(WrapAdd(Last(@), zoff), WrapAdd(Last(@), zoff)))]

\* the loop of find_new_levelmin from level i on; lm is m_levelmin so far
RECURSIVE ScanLevelmin(_, _, _)
ScanLevelmin(h, i, lm) ==
    IF i > levelmax(h) THEN lm
    ELSE ScanLevelmin(h, i + 1,
            IF /\ size(h, i, 0) = Pow2(i)
               /\ size(h, i, 1) = Pow2(i)
               /\ size(h, i, 2) = Pow2(i)
            THEN i ELSE lm)

find_new_levelmin(h) == [h EXCEPT !.m_levelmin = ScanLevelmin(h, 0, h.m_levelmin)]

(***************************************************************************)
(* cut_patch.  dx, dy, dz are unsigned; the new mesh comes from `new`      *)
(* without being zeroed, so what the copy loop does not write (the border) *)
(* keeps the allocator's content g; a read of the old mesh outside its     *)
(* buffer yields r.                                                        *)
(***************************************************************************)
cut_delta(h, ilevel, xoff, yoff, zoff) ==
    <<WrapSub(xoff, h.m_xoffabs[ilevel + 1]),
      WrapSub(yoff, h.m_yoffabs[ilevel + 1]),
      WrapSub(zoff, h.m_zoffabs[ilevel + 1])>>

\* cut_copy with the delta applied the wrong way round
cut_copy_backward(old, mnew, d, r) ==
    [mnew EXCEPT !.m_pdata =
        [f \in 0 .. (count(mnew) - 1) |->
            LET c == Logical(mnew, f)
            IN  IF c \in Interior(mnew)
                THEN ReadAt(old, WrapSub(c[1], d[1]), WrapSub(c[2], d[2]),
                            WrapSub(c[3], d[3]), r)
                ELSE mnew.m_pdata[f]]]

cut_copy(old, mnew, d, r) ==
    [mnew EXCEPT !.m_pdata =
        [f \in 0 .. (count(mnew) - 1) |->
            LET c == Logical(mnew, f)
            IN  IF c \in Interior(mnew)
                THEN ReadAt(old, WrapAdd(c[1], d[1]), WrapAdd(c[2], d[2]),
                            WrapAdd(c[3], d[3]), r)
                ELSE mnew.m_pdata[f]]]

\* whether the copy loop of cut_patch reads the old mesh outside its buffer
cut_reads_outside(old, mnew, d) ==
    \E c \in Interior(mnew) :
        ~InBuffer(old, Index(old, WrapAdd(c[1], d[1]), WrapAdd(c[2], d[2]),
                             WrapAdd(c[3], d[3])))

\* cut_finer without the adjustment of the finer level
cut_finer_unadjusted(h, ilevel, d) == h

\* the last step of cut_patch before find_new_levelmin: the next finer
\* level's relative offset gives way by the delta
cut_finer(h, ilevel, d) ==
    IF ilevel < levelmax(h)
    THEN [h EXCEPT !.m_pgrids[ilevel + 2].m_offx = WrapSub(@, d[1]),
                   !.m_pgrids[ilevel + 2].m_offy = WrapSub(@, d[2]),
                   !.m_pgrids[ilevel + 2].m_offz = WrapSub(@, d[3])]
    ELSE h

cut_patch(h, ilevel, xoff, yoff, zoff, nx, ny, nz, g, r) ==
    LET d == cut_delta(h, ilevel, xoff, yoff, zoff)
        old == get_grid(h, ilevel)
        dxtop == WrapAdd(mesh_offset(old, 0), UDiv2(d[1]))
        dytop == WrapAdd(mesh_offset(old, 1), UDiv2(d[2]))
        dztop == WrapAdd(mesh_offset(old, 2), UDiv2(d[3]))
        mnew == cut_copy(old, MeshvarBnd(h.m_nbnd, nx, ny, nz, dxtop, dytop, dztop, g), d, r)
        h1 == [h EXCEPT !.m_pgrids[ilevel + 1] = mnew,
                        !.m_xoffabs[ilevel + 1] = WrapAdd(@, d[1]),
                        !.m_yoffabs[ilevel + 1] = WrapAdd(@, d[2]),
                        !.m_zoffabs[ilevel + 1] = WrapAdd(@, d[3])]
    IN  find_new_levelmin(cut_finer(h1, ilevel, d))

\* is_refined with the upper ends of the footprint taken as inside
is_refined_inclusive(h, ilevel, i, j, k) ==
    IF ilevel = Len(h.m_pgrids) - 1 THEN FALSE
    ELSE ~ \/ i < mesh_offset(h.m_pgrids[ilevel + 2], 0)
           \/ i > mesh_offset(h.m_pgrids[ilevel + 2], 0)
                    + (bnd_size(h.m_pgrids[ilevel + 2], 0) \div 2)
           \/ j < mesh_offset(h.m_pgrids[ilevel + 2], 1)
           \/ j > mesh_offset(h.m_pgrids[ilevel + 2], 1)
                    + (bnd_size(h.m_pgrids[ilevel + 2], 1) \div 2)
           \/ k < mesh_offset(h.m_pgrids[ilevel + 2], 2)
           \/ k > mesh_offset(h.m_pgrids[ilevel + 2], 2)
                    + (bnd_size(h.m_pgrids[ilevel + 2], 2) \div 2)

\* is_refined; `||` does not evaluate its right side once the left holds
is_refined(h, ilevel, i, j, k) ==
    IF ilevel = levelmax(h) THEN FALSE
    ELSE ~ \/ i < offset(h, ilevel + 1, 0)
           \/ i >= offset(h, ilevel + 1, 0) + (size(h, ilevel + 1, 0) \div 2)
           \/ j < offset(h, ilevel + 1, 1)
           \/ j >= offset(h, ilevel + 1, 1) + (size(h, ilevel + 1, 1) \div 2)
           \/ k < offset(h, ilevel + 1, 2)
           \/ k >= offset(h, ilevel + 1, 2) + (size(h, ilevel + 1, 2) \div 2)

\* the four nested loops of count_leaf_cells
RECURSIVE CountK(_, _, _, _, _)
CountK(h, ilevel, i, j, k) ==
    IF k >= size(h, ilevel, 2) THEN 0
    ELSE (IF ~is_refined(h, ilevel, i, j, k) THEN 1 ELSE 0)
            + CountK(h, ilevel, i, j, k + 1)

RECURSIVE CountJ(_, _, _, _)
CountJ(h, ilevel, i, j) ==
    IF j >= size(h, ilevel, 1) THEN 0
    ELSE CountK(h, ilevel, i, j, 0) + CountJ(h, ilevel, i, j + 1)

RECURSIVE CountI(_, _, _)
CountI(h, ilevel, i) ==
    IF i >= size(h, ilevel, 0) THEN 0
    ELSE CountJ(h, ilevel, i, 0) + CountI(h, ilevel, i + 1)

RECURSIVE CountLevels(_, _, _)
CountLevels(h, ilevel, lmin) ==
    IF ilevel < lmin THEN 0
    ELSE CountI(h, ilevel, 0) + CountLevels(h, ilevel - 1, lmin)

count_leaf_cells(h, lmin, lmax) == CountLevels(h, lmax, lmin)

is_consistent(h, o) ==
    /\ levelmax(o) = levelmax(h)
    /\ levelmin(o) = levelmin(h)
    /\ \A i \in levelmin(h) .. levelmax(h) : \A j \in 0 .. 2 :
          /\ size(h, i, j) = size(o, i, j)
          /\ offset(h, i, j) = offset(o, i, j)

(***************************************************************************)
(* GridHierarchy::operator op= (const GridHierarchy&): the consistency     *)
(* check, then the loop over every level; a throw of the mesh operator at  *)
(* level i leaves the loop with the levels below i already combined.       *)
(***************************************************************************)
RECURSIVE HierLoop(_, _, _, _)
HierLoop(h, o, op, i) ==
    IF i >= Len(h.m_pgrids) THEN [threw |-> FALSE, h |-> h]
    ELSE LET r == mesh_op(get_grid(h, i), get_grid(o, i), op)
         IN  IF r.threw THEN [threw |-> TRUE, h |-> h]
             ELSE HierLoop([h EXCEPT !.m_pgrids[i + 1] = r.m], o, op, i + 1)

hier_op(h, o, op) ==
    IF ~is_consistent(h, o) THEN [threw |-> TRUE, h |-> h]
    ELSE HierLoop(h, o, op, 0)

\* GridHierarchy::operator=: a deep copy of every member
assign(h, o) ==
    [h EXCEPT !.m_pgrids = o.m_pgrids, !.m_levelmin = levelmin(o),
              !.m_nbnd = o.m_nbnd, !.m_xoffabs = o.m_xoffabs,
              !.m_yoffabs = o.m_yoffabs, !.m_zoffabs = o.m_zoffabs]

(***************************************************************************)
(* The calls of Spec.  A run builds the hierarchy `gh` by at most MaxCalls *)
(* calls (create_base_hierarchy, add_patch, cut_patch, writes of single    *)
(* cells, and operator= into the second hierarchy `gh2`) and may then use  *)
(* it once: gh op= gh2, or count_leaf_cells().  `call` records the last    *)
(* call, its arguments and what it returned or threw; call.n counts the    *)
(* calls.                                                                  *)
(***************************************************************************)
Offsets == {<<0, 0, 0>>, <<1, 0, 1>>}
Extents == {<<2, 2, 2>>, <<2, 1, 2>>, <<4, 4, 4>>}
AbsOffsets == {<<0, 0, 0>>, <<2, 0, 2>>, <<1, 2, 2>>}
WriteCells == {<<0, 0, 0>>, <<1, 0, 1>>, <<2, 0, 2>>}

NoField == [none |-> TRUE]

FieldIdle == fa = NoField /\ fb = NoField /\ heap = <<>> /\ fcall = [op |-> "none"]

\* no refinement_hierarchy has been constructed
NoLayout == [none |-> TRUE]

LayoutIdle == rh = NoLayout /\ lcall = [op |-> "none", n |-> 0]

Init ==
    /\ \E nbnd \in 0 .. MaxNbnd :
          /\ gh = GridHierarchy(nbnd)
          /\ gh2 = GridHierarchy(nbnd)
    /\ call = [op |-> "new", n |-> 0]
    /\ FieldIdle
    /\ LayoutIdle

UseOps == {"hier_op", "count_leaf_cells"}

Building == call.op \notin UseOps

More == Building /\ call.n < MaxCalls

NonEmpty(h) == Len(h.m_pgrids) > 0

\* the allocator's content shows only where the border keeps it
Fills(h) == IF h.m_nbnd = 0 THEN {Zero} ELSE Garbage

CreateBase ==
    /\ More
    /\ \E lmax \in 0 .. MaxBase :
          /\ gh' = create_base_hierarchy(gh, lmax, Zero)
          /\ call' = [op |-> "create_base", n |-> call.n + 1, lmax |-> lmax,
                      before |-> Len(gh.m_pgrids)]
    /\ UNCHANGED <<gh2, fa, fb, heap, fcall, rh, lcall>>

AddPatch ==
    /\ More
    /\ NonEmpty(gh)
    /\ levelmax(gh) < MaxLevel
    /\ \E o \in Offsets : \E e \in Extents :
          /\ gh' = add_patch(gh, o[1], o[2], o[3], e[1], e[2], e[3], Zero)
          /\ call' = [op |-> "add_patch", n |-> call.n + 1, off |-> o, ext |-> e]
    /\ UNCHANGED <<gh2, fa, fb, heap, fcall, rh, lcall>>

CutPatch ==
    /\ More
    /\ NonEmpty(gh)
    /\ \E ilevel \in 0 .. levelmax(gh) : \E a \in AbsOffsets : \E e \in Extents :
       \E g \in Fills(gh) : \E r \in Garbage :
          /\ gh' = cut_patch(gh, ilevel, a[1], a[2], a[3], e[1], e[2], e[3], g, r)
          /\ call' = [op |-> "cut_patch", n |-> call.n + 1, ilevel |-> ilevel,
                      off |-> a, ext |-> e,
                      d |-> cut_delta(gh, ilevel, a[1], a[2], a[3]),
                      outside |-> cut_reads_outside(get_grid(gh, ilevel),
                                      get_grid(gh', ilevel),
                                      cut_delta(gh, ilevel, a[1], a[2], a[3]))]
    /\ UNCHANGED <<gh2, fa, fb, heap, fcall, rh, lcall>>

\* a consumer writing one interior cell, (*get_grid(ilevel))(i,j,k) = v
SetCell ==
    /\ More
    /\ NonEmpty(gh)
    /\ \E ilevel \in 0 .. levelmax(gh) :
       \E c \in WriteCells \cap Interior(get_grid(gh, ilevel)) :
          /\ gh' = [gh EXCEPT !.m_pgrids[ilevel + 1] = WriteAt(@, c[1], c[2], c[3], One)]
          /\ call' = [op |-> "write", n |-> call.n + 1, ilevel |-> ilevel, cell |-> c]
    /\ UNCHANGED <<gh2, fa, fb, heap, fcall, rh, lcall>>

\* gh2 = gh
Assign ==
    /\ More
    /\ NonEmpty(gh)
    /\ gh2' = assign(gh2, gh)
    /\ call' = [op |-> "assign", n |-> call.n + 1]
    /\ UNCHANGED <<gh, fa, fb, heap, fcall, rh, lcall>>

\* gh op= gh2
HierOp ==
    /\ Building
    /\ NonEmpty(gh) /\ NonEmpty(gh2)
    /\ \E op \in Ops :
          LET r == hier_op(gh, gh2, op)
          IN  /\ gh' = r.h
              /\ call' = [op |-> "hier_op", n |-> call.n + 1, sym |-> op,
                          threw |-> r.threw]
    /\ UNCHANGED <<gh2, fa, fb, heap, fcall, rh, lcall>>

\* count_leaf_cells(void)
CountLeafCells ==
    /\ Building
    /\ NonEmpty(gh)
    /\ call' = [op |-> "count_leaf_cells", n |-> call.n + 1,
                result |-> count_leaf_cells(gh, levelmin(gh), levelmax(gh))]
    /\ UNCHANGED <<gh, gh2, fa, fb, heap, fcall, rh, lcall>>

Next ==
    \/ CreateBase
    \/ AddPatch
    \/ CutPatch
    \/ SetCell
    \/ Assign
    \/ HierOp
    \/ CountLeafCells

Spec == Init /\ [][Next]_vars

(***************************************************************************)
(* Properties of GridHierarchy, checked under Spec.                        *)
(***************************************************************************)
Axes == 0 .. 2

\* the value of the cell with logical index c
CellAt(m, c) == m.m_pdata[Index(m, c[1], c[2], c[3])]

AbsOf(h, ilevel) ==
    <<offset_abs(h, ilevel, 0), offset_abs(h, ilevel, 1), offset_abs(h, ilevel, 2)>>

SizeOf(m) == <<bnd_size(m, 0), bnd_size(m, 1), bnd_size(m, 2)>>

\* a step that is the call named op
Called(op) == call'.op = op /\ call'.n = call.n + 1

\* absolute_offset[l] = 2 * (absolute_offset[l-1] + relative_offset[l]) modulo 2^32
OffsetsConsistent(h) ==
    NonEmpty(h) =>
        \A l \in 1 .. levelmax(h) : \A j \in Axes :
            LET s == WrapAdd(offset_abs(h, l - 1, j), offset(h, l, j))
            IN  offset_abs(h, l, j) = WrapAdd(s, s)

\* C1 as stated: the relation between absolute and relative offsets holds in
\* every state reached by create_base, add_patch and cut_patch, whatever the
\* offset delta of a cut_patch (odd deltas included).
C1_OffsetsAlways == OffsetsConsistent(gh)

\* the step is a cut_patch of a level l >= 1 whose delta is odd on some axis
OddCut ==
    /\ Called("cut_patch")
    /\ call'.ilevel >= 1
    /\ \E j \in 1 .. 3 : call'.d[j] % 2 # 0

\* C1 (amended): every call keeps the relation between absolute and relative
\* offsets (modulo 2^32), a cut_patch that grows the patch included, except a
\* cut_patch of a level l >= 1 whose offset delta is odd on some axis.
C1_OffsetsKept ==
    [][(OffsetsConsistent(gh) /\ ~OddCut) => OffsetsConsistent(gh')]_vars

\* a cut_patch has moved a level l >= 1 to a smaller absolute offset by an even
\* delta: the relative offset has wrapped and the relation still holds
C1_Witness ==
    /\ call.op = "cut_patch"
    /\ call.ilevel >= 1
    /\ \E j \in 1 .. 3 : call.d[j] < 0 /\ call.d[j] % 2 = 0
    /\ \A j \in 1 .. 3 : call.d[j] % 2 = 0
    /\ offset(gh, call.ilevel, 0) < 0
    /\ OffsetsConsistent(gh)

\* C2: every level l <= levelmin has absolute offset (0,0,0) and interior extent
\* 2^l on every axis.
C2_LevelminFull ==
    NonEmpty(gh) =>
        \A l \in 0 .. levelmin(gh) : \A j \in Axes :
            offset_abs(gh, l, j) = 0 /\ size(gh, l, j) = Pow2(l)

\* C3: cut_patch(level, a', n') installs a mesh of interior extent n' at absolute
\* offset a'; every interior cell c of it whose source c + (a' - a) lies in the
\* old interior holds the old value of the source; and a cut_patch of the finest
\* level to its own offset and extent changes no interior value of that level
\* and nothing of any other level.
C3_CutCopies ==
    [][Called("cut_patch") =>
        LET l == call'.ilevel
            a == AbsOf(gh, l)
            a2 == call'.off
            e == call'.ext
            old == get_grid(gh, l)
            new == get_grid(gh', l)
        IN  /\ SizeOf(new) = e
            /\ AbsOf(gh', l) = a2
            /\ \A c \in Interior(new) :
                  LET s == <<c[1] + (a2[1] - a[1]), c[2] + (a2[2] - a[2]),
                             c[3] + (a2[3] - a[3])>>
                  IN  s \in Interior(old) => CellAt(new, c) = CellAt(old, s)
            /\ (l = levelmax(gh) /\ a2 = a /\ e = SizeOf(old)) =>
                  /\ levelmax(gh') = levelmax(gh)
                  /\ \A c \in Interior(old) : CellAt(new, c) = CellAt(old, c)
                  /\ \A k \in 0 .. levelmax(gh) :
                        k # l => /\ get_grid(gh', k) = get_grid(gh, k)
                                 /\ AbsOf(gh', k) = AbsOf(gh, k)
    ]_vars

\* a cut_patch by a non-zero delta has copied a cell that had been written
C3_Witness ==
    /\ call.op = "cut_patch"
    /\ call.d # <<0, 0, 0>>
    /\ \E c \in Interior(get_grid(gh, call.ilevel)) :
          CellAt(get_grid(gh, call.ilevel), c) = One

\* C4: add_patch(o, n) adds one level; the new finest level has interior extent
\* n, relative offset o, every cell zero and absolute offset
\* 2 * (previous finest absolute offset + o); the levels there before, and
\* levelmin, are unchanged.
C4_AddPatch ==
    [][Called("add_patch") =>
        LET top == levelmax(gh)
            new == get_grid(gh', top + 1)
            o == call'.off
        IN  /\ levelmax(gh') = top + 1
            /\ SizeOf(new) = call'.ext
            /\ <<mesh_offset(new, 0), mesh_offset(new, 1), mesh_offset(new, 2)>> = o
            /\ \A f \in DOMAIN new.m_pdata : new.m_pdata[f] = Zero
            /\ \A j \in Axes :
                  offset_abs(gh', top + 1, j) = 2 * (offset_abs(gh, top, j) + o[j + 1])
            /\ \A k \in 0 .. top :
                  get_grid(gh', k) = get_grid(gh, k) /\ AbsOf(gh', k) = AbsOf(gh, k)
            /\ levelmin(gh') = levelmin(gh)
    ]_vars

\* an add_patch at a non-zero offset onto a finest level that is itself displaced
C4_Witness ==
    /\ call.op = "add_patch"
    /\ call.off = <<1, 0, 1>>
    /\ AbsOf(gh, levelmax(gh)) = <<6, 0, 6>>

\* C5: after create_base(L) there are exactly L+1 levels, level i of interior
\* extent 2^i with relative and absolute offset (0,0,0) and every cell zero, and
\* levelmin = L = levelmax.
C5_CreateBase ==
    call.op = "create_base" =>
        /\ Len(gh.m_pgrids) = call.lmax + 1
        /\ Len(gh.m_xoffabs) = call.lmax + 1
        /\ Len(gh.m_yoffabs) = call.lmax + 1
        /\ Len(gh.m_zoffabs) = call.lmax + 1
        /\ levelmin(gh) = call.lmax
        /\ levelmax(gh) = call.lmax
        /\ \A i \in 0 .. call.lmax :
              /\ SizeOf(get_grid(gh, i)) = <<Pow2(i), Pow2(i), Pow2(i)>>
              /\ AbsOf(gh, i) = <<0, 0, 0>>
              /\ \A j \in Axes : offset(gh, i, j) = 0
              /\ \A f \in DOMAIN get_grid(gh, i).m_pdata :
                    get_grid(gh, i).m_pdata[f] = Zero

\* create_base called on a hierarchy that held more levels than it leaves
C5_Witness ==
    /\ call.op = "create_base"
    /\ call.before > call.lmax + 1

\* C6: gh op= gh2 either combines every level 0..levelmax element by element,
\* or throws and leaves both hierarchies as they were.
C6_AllOrNothing ==
    [][Called("hier_op") =>
        /\ gh2' = gh2
        /\ IF call'.threw
           THEN gh' = gh
           ELSE \A i \in 0 .. levelmax(gh) :
                   \A f \in DOMAIN get_grid(gh, i).m_pdata :
                       get_grid(gh', i).m_pdata[f] =
                           OpApply(call'.sym, get_grid(gh, i).m_pdata[f],
                                   get_grid(gh2, i).m_pdata[f])
    ]_vars

\* is_refined as spec.md states it
RefinedCell(h, l, c) ==
    /\ l # levelmax(h)
    /\ \A j \in Axes :
          /\ offset(h, l + 1, j) <= c[j + 1]
          /\ c[j + 1] < offset(h, l + 1, j) + (size(h, l + 1, j) \div 2)

LeafCells(h, lmin, lmax) ==
    {p \in UNION {{l} \X Interior(get_grid(h, l)) : l \in lmin .. lmax} :
        ~RefinedCell(h, p[1], p[2])}

\* C8: count_leaf_cells(lmin, lmax) is the number of interior cells of the levels
\* lmin..lmax that are not refined; right after create_base(L) the count over
\* levelmin..levelmax is (2^L)^3.
C8_LeafCount ==
    NonEmpty(gh) =>
        /\ \A lmax \in 0 .. levelmax(gh) : \A lmin \in 0 .. lmax :
              count_leaf_cells(gh, lmin, lmax) = Cardinality(LeafCells(gh, lmin, lmax))
        /\ call.op = "count_leaf_cells" =>
              call.result = Cardinality(LeafCells(gh, levelmin(gh), levelmax(gh)))
        /\ call.op = "create_base" =>
              count_leaf_cells(gh, levelmin(gh), levelmax(gh))
                  = Pow2(call.lmax) * Pow2(call.lmax) * Pow2(call.lmax)

\* a count over a level that a finer patch covers in part
C8_Witness ==
    /\ call.op = "count_leaf_cells"
    /\ levelmin(gh) < levelmax(gh)
    /\ \E c \in Interior(get_grid(gh, levelmin(gh))) : RefinedCell(gh, levelmin(gh), c)
    /\ \E c \in Interior(get_grid(gh, levelmin(gh))) : ~RefinedCell(gh, levelmin(gh), c)
    /\ call.result > 0

(***************************************************************************)
(* SpecField: two meshes fa and fb, constructed with a border of nbnd      *)
(* cells, and at most MaxFieldOps calls on them.  Their buffers live on    *)
(* `heap`; `fcall` records the last call, what it returned, the buffer the *)
(* mesh it acted on held before (fcall.old), and how fb was last copied    *)
(* from fa (fcall.copy).                                                   *)
(***************************************************************************)
Shapes == {<<1, 2, 2>>, <<2, 2, 1>>, <<2, 2, 2>>}
FieldCells == {<<0, 0, 0>>, <<0 - 1, 1, 0>>}

\* the mesh with its buffer in place of the address
Deref(hp, m) == [m EXCEPT !.m_pdata = hp[m.m_pdata]]

InitField ==
    /\ gh = GridHierarchy(0)
    /\ gh2 = GridHierarchy(0)
    /\ call = [op |-> "none", n |-> 0]
    /\ \E nbnd \in 0 .. MaxFieldNbnd : \E sa \in Shapes : \E sb \in Shapes :
       \E ga \in Garbage : \E gb \in Garbage :
          LET a == MeshvarBnd(nbnd, sa[1], sa[2], sa[3], 1, 0, 2, ga)
              b == MeshvarBnd(nbnd, sb[1], sb[2], sb[3], 0, 0, 0, gb)
          IN  /\ fa = [a EXCEPT !.m_pdata = 1]
              /\ fb = [b EXCEPT !.m_pdata = 2]
              /\ heap = (1 :> a.m_pdata) @@ (2 :> b.m_pdata)
    /\ fcall = [op |-> "new", n |-> 0, copy |-> "none"]
    /\ LayoutIdle

MoreField == fcall.n < MaxFieldOps

Which == {"a", "b"}

Mesh(x) == IF x = "a" THEN fa ELSE fb

\* the call op on mesh x leaves buffer v.m_pdata in it
Stored(x, op, v, extra) ==
    /\ heap' = [heap EXCEPT ![Mesh(x).m_pdata] = v.m_pdata]
    /\ fcall' = [op |-> op, n |-> fcall.n + 1, copy |-> fcall.copy, which |-> x,
                 old |-> heap[Mesh(x).m_pdata]] @@ extra
    /\ UNCHANGED <<fa, fb, gh, gh2, call, rh, lcall>>

FZero ==
    /\ MoreField
    /\ \E x \in Which : Stored(x, "zero", zero(Deref(heap, Mesh(x))), <<>>)

\* (*x)(i,j,k) = 1.0 at a logical index of the buffer, border included
FWrite ==
    /\ MoreField
    /\ \E x \in Which : \E c \in FieldCells \cap Ghosted(Mesh(x)) :
          Stored(x, "write", WriteAt(Deref(heap, Mesh(x)), c[1], c[2], c[3], One),
                 [cell |-> c])

FZeroBnd ==
    /\ MoreField
    /\ \E x \in Which :
          LET r == zero_bnd(Deref(heap, Mesh(x)))
          IN  Stored(x, "zero_bnd", r.m, [outside |-> r.outside])

\* fa op= fb
FOp ==
    /\ MoreField
    /\ \E op \in Ops :
          LET r == mesh_op(Deref(heap, fa), Deref(heap, fb), op)
          IN  Stored("a", "mesh_op", r.m, [sym |-> op, threw |-> r.threw])

\* fb is destroyed and constructed anew as MeshvarBnd(fa, copy_over)
FCopy ==
    /\ MoreField
    /\ \E copy_over \in BOOLEAN : \E g \in Garbage :
          LET freed == [p \in DOMAIN heap \ {fb.m_pdata} |-> heap[p]]
              r == copy_mesh(freed, fa, copy_over, g)
          IN  /\ fb' = r.m
              /\ heap' = r.heap
              /\ fcall' = [op |-> "copy", n |-> fcall.n + 1,
                           copy |-> IF copy_over THEN "deep" ELSE "shape",
                           copy_over |-> copy_over]
    /\ UNCHANGED <<fa, gh, gh2, call, rh, lcall>>

NextField ==
    \/ FZero
    \/ FWrite
    \/ FZeroBnd
    \/ FOp
    \/ FCopy

SpecField == InitField /\ [][NextField]_vars

(***************************************************************************)
(* Properties of Meshvar and MeshvarBnd, checked under SpecField.          *)
(***************************************************************************)
FCalled(op) == fcall'.op = op /\ fcall'.n = fcall.n + 1

\* extents, offset and border width of a mesh
Geometry(m) ==
    <<m.m_nx, m.m_ny, m.m_nz, m.m_offx, m.m_offy, m.m_offz, m.m_nbnd>>

\* C7: fa op= fb throws iff the element counts differ, and then fa is as it
\* was; with equal counts a[i] = op(a[i], b[i]) at every raw index i, and fb and
\* the extents and offset of fa are unchanged, also when the shapes differ.
C7_Elementwise ==
    [][FCalled("mesh_op") =>
        LET count1 == fa.m_nx * fa.m_ny * fa.m_nz
            count2 == fb.m_nx * fb.m_ny * fb.m_nz
        IN  /\ fcall'.threw <=> (count1 # count2)
            /\ fa' = fa /\ fb' = fb
            /\ heap'[fb.m_pdata] = heap[fb.m_pdata]
            /\ DOMAIN heap' = DOMAIN heap
            /\ IF count1 # count2
               THEN heap'[fa.m_pdata] = heap[fa.m_pdata]
               ELSE /\ DOMAIN heap'[fa.m_pdata] = 0 .. (count1 - 1)
                    /\ \A i \in 0 .. (count1 - 1) :
                          heap'[fa.m_pdata][i] =
                              OpApply(fcall'.sym, heap[fa.m_pdata][i], heap[fb.m_pdata][i])
    ]_vars

\* an elementwise operation has combined two meshes of equal count and
\* different shape, after a cell of one of them was written
C7_Witness ==
    /\ fcall.op = "mesh_op"
    /\ ~fcall.threw
    /\ <<fa.m_nx, fa.m_ny, fa.m_nz>> # <<fb.m_nx, fb.m_ny, fb.m_nz>>
    /\ \E i \in DOMAIN fcall.old : fcall.old[i] = One
    /\ heap[fa.m_pdata] # fcall.old

\* whether the logical index c lies in the border shell of m
InShell(m, c) == \E j \in Axes : c[j + 1] < 0 \/ c[j + 1] >= bnd_size(m, j)

\* C9: zero_bnd sets to zero every cell with a logical index in [-nbnd,0) or
\* [size,size+nbnd) on some axis, leaves every interior cell as it was, and
\* writes nowhere outside the buffer.
C9_ZeroBnd ==
    [][FCalled("zero_bnd") =>
        LET x == fcall'.which
            old == Deref(heap, Mesh(x))
            new == [old EXCEPT !.m_pdata = heap'[Mesh(x).m_pdata]]
        IN  /\ fa' = fa /\ fb' = fb
            /\ DOMAIN new.m_pdata = DOMAIN old.m_pdata
            /\ \A c \in Ghosted(old) :
                  IF InShell(old, c)
                  THEN CellAt(new, c) = Zero
                  ELSE CellAt(new, c) = CellAt(old, c)
            /\ ~fcall'.outside
            /\ \A p \in DOMAIN heap : p # Mesh(x).m_pdata => heap'[p] = heap[p]
    ]_vars

\* zero_bnd has run on a bordered mesh whose border and interior held non-zero
\* values, one of them written into the border
C9_Witness ==
    /\ fcall.op = "zero_bnd"
    /\ Mesh(fcall.which).m_nbnd >= 1
    /\ \E i \in DOMAIN fcall.old : fcall.old[i] = One /\ heap[Mesh(fcall.which).m_pdata][i] = Zero
    /\ \E c \in Interior(Mesh(fcall.which)) :
          CellAt(Deref(heap, Mesh(fcall.which)), c) # Zero

\* C10 as stated: a deep copy has the extents, offset and elements of its
\* source; a shape-only copy has the extents and offset of its source, every
\* element zero, and a buffer of its own.
C10_CopyZeroed ==
    fcall.op = "copy" =>
        /\ Geometry(fb) = Geometry(fa)
        /\ fb.m_pdata # fa.m_pdata
        /\ \A i \in DOMAIN heap[fb.m_pdata] :
              heap[fb.m_pdata][i] = IF fcall.copy_over THEN heap[fa.m_pdata][i] ELSE Zero

\* a call that writes through one mesh
Writes(x) ==
    /\ fcall'.n = fcall.n + 1
    /\ fcall'.op \in {"zero", "write", "zero_bnd", "mesh_op"}
    /\ fcall'.which = x

\* C10 (amended): a deep copy has the extents, offset and elements of its
\* source; a shape-only copy has the extents and offset of its source; either
\* copy has a buffer of its own, of the source's element count, so that no write
\* through one mesh changes the other.  (The elements of a shape-only copy are
\* what the allocation holds.)
C10_Copy ==
    [][/\ FCalled("copy") =>
            /\ fa' = fa
            /\ heap'[fa.m_pdata] = heap[fa.m_pdata]
            /\ Geometry(fb') = Geometry(fa)
            /\ fb'.m_pdata # fa.m_pdata
            /\ DOMAIN heap' = {fa.m_pdata, fb'.m_pdata}
            /\ DOMAIN heap'[fb'.m_pdata] = DOMAIN heap[fa.m_pdata]
            /\ fcall'.copy_over =>
                  \A i \in DOMAIN heap[fa.m_pdata] :
                      heap'[fb'.m_pdata][i] = heap[fa.m_pdata][i]
       /\ Writes("a") => heap'[fb.m_pdata] = heap[fb.m_pdata]
       /\ Writes("b") => heap'[fa.m_pdata] = heap[fa.m_pdata]
    ]_vars

\* a cell of a shape-only copy has been written and the source differs from it
C10_Witness ==
    /\ fcall.op = "write"
    /\ fcall.which = "b"
    /\ fcall.copy = "shape"
    /\ heap[fb.m_pdata] # heap[fa.m_pdata]
    /\ \E i \in DOMAIN heap[fb.m_pdata] : heap[fb.m_pdata][i] = One /\ heap[fa.m_pdata][i] # One

(***************************************************************************)
(* refinement_hierarchy.  Its doubles are kept exactly, as numerators over *)
(* Unit: every configuration value of the model is an even multiple of     *)
(* 1/Unit, and on such values each floating operation of the constructor   *)
(* (halving, adding 1.0, fmod by 1.0, scaling by a power of two) is exact. *)
(* The normalised coordinates x0_, xl_, ... are outputs that no operation  *)
(* reads back; the model leaves them out.                                  *)
(***************************************************************************)
Unit == 2 ^ 10

\* (int)(n / d) for d > 0: the quotient truncated towards zero
Trunc(n, d) == IF n >= 0 THEN n \div d ELSE 0 - ((0 - n) \div d)

\* a % b of the language: the remainder has the sign of a
Rem(a, b) == a - Trunc(a, b) * b

\* fmod(x, 1.0)
fmod1(x) == Rem(x, Unit)

\* 0.5 * x
Half(x) == x \div 2

\* x0ref_[a] as read from the configuration: from ref_center or from ref_offset
x0ref(cf, a) ==
    IF cf.center
    THEN fmod1((cf.ref[a] - Half(cf.ref_extent[a])) + Unit)
    ELSE cf.ref[a]

\* xc[a], the centre of the region
xc(cf, a) == fmod1(x0ref(cf, a) + Half(cf.ref_extent[a]))

ncoarse(cf) == Pow2(cf.levelmin)

nresmax(cf) == Pow2(cf.levelmax)

\* the shift with the test of the flags the other way round
xshift_flags_swapped(cf, a) ==
    IF cf.levelmin # cf.levelmax /\ (cf.no_shift \/ ~cf.force_shift)
    THEN Trunc((Half(Unit) - xc(cf, a)) * ncoarse(cf), Unit)
    ELSE 0

\* xshift_[a]
xshift(cf, a) ==
    IF cf.levelmin # cf.levelmax /\ (~cf.no_shift \/ cf.force_shift)
    THEN Trunc((Half(Unit) - xc(cf, a)) * ncoarse(cf), Unit)
    ELSE 0

\* x0ref_[a] += (double)xshift_[a] / ncoarse
x0shifted(cf, a) == x0ref(cf, a) + xshift(cf, a) * (Unit \div ncoarse(cf))

\* il and ir on the finest grid, before alignment
il_fine(cf, a) == Trunc(x0shifted(cf, a) * nresmax(cf), Unit)

\* the upper bound without the bias of one cell
ir_fine_unbiased(cf, a) ==
    Trunc((x0shifted(cf, a) + cf.ref_extent[a]) * nresmax(cf), Unit)

ir_fine(cf, a) ==
    Trunc((x0shifted(cf, a) + cf.ref_extent[a]) * nresmax(cf) + Unit, Unit)

\* alignment of a lower bound: to the top grid (multiples of nref) or to even
align_lo(cf, il, nref) ==
    IF cf.align_top THEN Trunc(il, nref) * nref ELSE il - Rem(il, 2)

\* the upper bound aligned the way the lower one is
align_hi_down(cf, ir, nref) ==
    IF cf.align_top THEN Trunc(ir, nref) * nref ELSE ir - Rem(ir, 2)

\* alignment of an upper bound
align_hi(cf, ir, nref) ==
    IF cf.align_top THEN Trunc(ir + nref, nref) * nref ELSE ir + Rem(ir, 2)

\* il = (il + nresmax) % nresmax
wrap(i, n) == Rem(i + n, n)

\* <<il, ir>> of axis a on the finest grid after alignment, before the wrap
FineAligned(cf, a) ==
    LET nref == Pow2((cf.levelmax - cf.levelmin) + 1)
    IN  <<align_lo(cf, il_fine(cf, a), nref), align_hi(cf, ir_fine(cf, a), nref)>>

\* <<il, ir>> of axis a when level ilevel is recorded, levelmin < ilevel <=
\* levelmax: wrapped on the finest level; halved, padded and aligned (and not
\* wrapped) on each coarser one
RECURSIVE Box(_, _, _)
Box(cf, a, ilevel) ==
    IF ilevel >= cf.levelmax
    THEN <<wrap(FineAligned(cf, a)[1], nresmax(cf)),
           wrap(FineAligned(cf, a)[2], nresmax(cf))>>
    ELSE LET b == Box(cf, a, ilevel + 1)
             nref == Pow2(ilevel - cf.levelmin)
         IN  <<align_lo(cf, Trunc(b[1] - 2 * cf.padding, 2), nref),
               align_hi(cf, Trunc(b[2] + 2 * cf.padding, 2), nref)>>

\* the levels whose box the constructor tests: the finest one always, then
\* levelmax-1 down to levelmin+1
Tested(cf) == {cf.levelmax} \cup ((cf.levelmin + 1) .. (cf.levelmax - 1))

\* the test with > in place of >=
BoxError_strict(cf) ==
    \E ilevel \in Tested(cf) : \E a \in 1 .. 3 :
        Box(cf, a, ilevel)[1] > Box(cf, a, ilevel)[2]

\* il >= ir || jl >= jr || kl >= kr at some tested level
BoxError(cf) ==
    \E ilevel \in Tested(cf) : \E a \in 1 .. 3 :
        Box(cf, a, ilevel)[1] >= Box(cf, a, ilevel)[2]

Patch(cf, ilevel) == ilevel > cf.levelmin /\ ilevel <= cf.levelmax

\* oax_[ilevel] (a = 1), oay_ (a = 2), oaz_ (a = 3) as the constructor leaves them
oa_of(cf, a, ilevel) ==
    IF ~Patch(cf, ilevel) THEN 0
    ELSE IF ilevel = cf.levelmax
         THEN wrap(Box(cf, a, ilevel)[1], nresmax(cf))
         ELSE Box(cf, a, ilevel)[1]

\* nx_[ilevel], ny_, nz_
n_of(cf, a, ilevel) ==
    IF ~Patch(cf, ilevel) THEN Pow2(ilevel)
    ELSE Box(cf, a, ilevel)[2] - Box(cf, a, ilevel)[1]

\* ox_[ilevel] = oax_[ilevel]/2 - oax_[ilevel-1], on unsigned
o_of(cf, a, ilevel) ==
    IF ~Patch(cf, ilevel) THEN 0
    ELSE WrapSub(UDiv2(oa_of(cf, a, ilevel)), oa_of(cf, a, ilevel - 1))

Levels(cf) == 1 .. (cf.levelmax + 1)

\* the object the constructor leaves when it runs to its end
Constructed(cf) ==
    [levelmin_ |-> cf.levelmin, levelmax_ |-> cf.levelmax,
     padding_ |-> cf.padding, align_top_ |-> cf.align_top,
     x0ref_ |-> [a \in 1 .. 3 |-> x0shifted(cf, a)],
     lxref_ |-> cf.ref_extent,
     xshift_ |-> [a \in 1 .. 3 |-> xshift(cf, a)],
     ox_ |-> [i \in Levels(cf) |-> o_of(cf, 1, i - 1)],
     oy_ |-> [i \in Levels(cf) |-> o_of(cf, 2, i - 1)],
     oz_ |-> [i \in Levels(cf) |-> o_of(cf, 3, i - 1)],
     oax_ |-> [i \in Levels(cf) |-> oa_of(cf, 1, i - 1)],
     oay_ |-> [i \in Levels(cf) |-> oa_of(cf, 2, i - 1)],
     oaz_ |-> [i \in Levels(cf) |-> oa_of(cf, 3, i - 1)],
     nx_ |-> [i \in Levels(cf) |-> n_of(cf, 1, i - 1)],
     ny_ |-> [i \in Levels(cf) |-> n_of(cf, 2, i - 1)],
     nz_ |-> [i \in Levels(cf) |-> n_of(cf, 3, i - 1)]]

\* what is left of a construction that LOGERR ended
Aborted == [aborted |-> TRUE]

\* LOGERR(...) of log.hh, reached when `failed`: the fatal layout error
LOGERR(failed, r) == IF failed THEN Aborted ELSE r

\* refinement_hierarchy(config_file&)
refinement_hierarchy(cf) == LOGERR(BoxError(cf), Constructed(cf))

(***************************************************************************)
(* SpecLayout: the construction of a refinement_hierarchy from one         *)
(* configuration.  The configurations are those with levelmin <= levelmax  *)
(* <= MaxLayoutLevel and padding <= MaxPadding whose region (ref_center or *)
(* ref_offset, and ref_extent) lies on the grid of eighths in [0,1), one   *)
(* axis or all three differing from a fixed region, and the scenario of    *)
(* spec.md.  `lcall` records the last call on `rh` and its arguments.      *)
(***************************************************************************)
MaxLayoutLevel == 3
MaxPadding == 2

LevelPairs ==
    {p \in (0 .. MaxLayoutLevel) \X (1 .. MaxLayoutLevel) : p[1] <= p[2]}

\* <<ref, ref_extent>> of one axis
Regions ==
    {<<k * (Unit \div 8), e>> :
        k \in 0 .. 7, e \in {Unit \div 8, Unit \div 4, Unit \div 2, 3 * (Unit \div 4)}}

Region0 == <<Unit \div 4, Unit \div 4>>

RegionTriples ==
    UNION {{<<p, Region0, Region0>>, <<Region0, p, Region0>>,
            <<Region0, Region0, p>>, <<p, p, p>>} : p \in Regions}

Config(lmin, lmax, pad, top, center, t, ns, fs) ==
    [levelmin |-> lmin, levelmax |-> lmax, padding |-> pad, align_top |-> top,
     center |-> center,
     ref |-> <<t[1][1], t[2][1], t[3][1]>>,
     ref_extent |-> <<t[1][2], t[2][2], t[3][2]>>,
     no_shift |-> ns, force_shift |-> fs]

\* levelmin=5, levelmax=7, padding=1, align_top=false, ref_center=0.5,0.5,0.5,
\* ref_extent=0.25,0.25,0.25
Scenario ==
    LET r == <<Half(Unit), Unit \div 4>>
    IN  Config(5, 7, 1, FALSE, TRUE, <<r, r, r>>, FALSE, FALSE)

Configs ==
    {Config(p[1], p[2], pad, top, center, t, ns, fs) :
        p \in LevelPairs, pad \in 0 .. MaxPadding, top \in BOOLEAN,
        center \in BOOLEAN, t \in RegionTriples, ns \in BOOLEAN, fs \in BOOLEAN}
    \cup {Scenario}

HierarchyIdle ==
    /\ gh = GridHierarchy(0)
    /\ gh2 = GridHierarchy(0)
    /\ call = [op |-> "none", n |-> 0]

InitLayout == HierarchyIdle /\ FieldIdle /\ LayoutIdle

Construct ==
    /\ rh = NoLayout
    /\ \E cf \in Configs :
          /\ rh' = refinement_hierarchy(cf)
          /\ lcall' = [op |-> "construct", n |-> 1, cf |-> cf]
    /\ UNCHANGED <<gh, gh2, call, fa, fb, heap, fcall>>

NextLayout == Construct

SpecLayout == InitLayout /\ [][NextLayout]_vars

(***************************************************************************)
(* Properties of the construction, checked under SpecLayout.               *)
(***************************************************************************)
IsLayout(r) == r # NoLayout /\ r # Aborted

\* C11 as stated: the scenario of spec.md records shift (0,0,0) and a finest
\* level of exactly 32 cells on every axis.
C11_Scenario32 ==
    (lcall.op = "construct" /\ lcall.cf = Scenario) =>
        /\ IsLayout(rh)
        /\ rh.xshift_ = <<0, 0, 0>>
        /\ rh.nx_[8] = 32 /\ rh.ny_[8] = 32 /\ rh.nz_[8] = 32

\* C11 (amended): the scenario records shift (0,0,0) and a finest level of
\* exactly 34 cells on every axis, from cell 48 to cell 82 of 128.
C11_Scenario34 ==
    (lcall.op = "construct" /\ lcall.cf = Scenario) =>
        /\ IsLayout(rh)
        /\ rh.xshift_ = <<0, 0, 0>>
        /\ rh.nx_[8] = 34 /\ rh.ny_[8] = 34 /\ rh.nz_[8] = 34
        /\ rh.oax_[8] = 48 /\ rh.oay_[8] = 48 /\ rh.oaz_[8] = 48

\* the scenario has been constructed
C11_Witness ==
    /\ lcall.op = "construct"
    /\ lcall.cf = Scenario
    /\ IsLayout(rh)
    /\ rh.levelmax_ = 7

\* the bounds <<lo, hi>> of axis a at level l are degenerate
Degenerate(cf, a, l) == Box(cf, a, l)[1] >= Box(cf, a, l)[2]

LayoutAbs(r, l) == <<r.oax_[l + 1], r.oay_[l + 1], r.oaz_[l + 1]>>

LayoutExt(r, l) == <<r.nx_[l + 1], r.ny_[l + 1], r.nz_[l + 1]>>

LayoutRel(r, l) == <<r.ox_[l + 1], r.oy_[l + 1], r.oz_[l + 1]>>

\* C13: after a construction with levelmin < levelmax every level l has, on
\* every axis, its absolute offset in [0, 2^l) and offset + extent <= 2^l (the
\* offset read as the unsigned value stored: a negative pattern is >= 2^31).
C13_InDomain ==
    (lcall.op = "construct" /\ IsLayout(rh) /\ lcall.cf.levelmin < lcall.cf.levelmax) =>
        \A l \in 0 .. rh.levelmax_ : \A a \in 1 .. 3 :
            /\ LayoutAbs(rh, l)[a] >= 0
            /\ LayoutAbs(rh, l)[a] < Pow2(l)
            /\ LayoutAbs(rh, l)[a] + LayoutExt(rh, l)[a] <= Pow2(l)

(***************************************************************************)
(* adjust_level and find_new_levelmin of refinement_hierarchy.  The new    *)
(* offsets and extents are int arguments; dx, dy, dz are int, computed on  *)
(* unsigned; the vectors hold unsigned values (kept as bit patterns).      *)
(***************************************************************************)
\* dx / 2 on int: the quotient truncated towards zero
IDiv2(d) == IF d >= 0 THEN d \div 2 ELSE (d + 1) \div 2

\* level i lies at offset (0,0,0) with extent 2^i on every axis
rh_full(r, i) ==
    /\ r.oax_[i + 1] = 0 /\ r.oay_[i + 1] = 0 /\ r.oaz_[i + 1] = 0
    /\ r.nx_[i + 1] = Pow2(i) /\ r.ny_[i + 1] = Pow2(i) /\ r.nz_[i + 1] = Pow2(i)

RECURSIVE rh_scan(_, _, _)
rh_scan(r, i, lm) ==
    IF i > r.levelmax_ THEN lm
    ELSE rh_scan(r, i + 1, IF rh_full(r, i) THEN i ELSE lm)

\* refinement_hierarchy::find_new_levelmin
rh_find_new_levelmin(r) == [r EXCEPT !.levelmin_ = rh_scan(r, 0, r.levelmin_)]

\* dx, dy, dz of adjust_level
adjust_delta(r, ilevel, oa) ==
    <<WrapSub(r.oax_[ilevel + 1], oa[1]),
      WrapSub(r.oay_[ilevel + 1], oa[2]),
      WrapSub(r.oaz_[ilevel + 1], oa[3])>>

\* refinement_hierarchy::adjust_level(ilevel, nx, ny, nz, oax, oay, oaz)
adjust_level(r, ilevel, n, oa) ==
    LET d == adjust_delta(r, ilevel, oa)
        i == ilevel + 1
        r1 == [r EXCEPT !.ox_[i] = WrapSub(@, IDiv2(d[1])),
                        !.oy_[i] = WrapSub(@, IDiv2(d[2])),
                        !.oz_[i] = WrapSub(@, IDiv2(d[3])),
                        !.oax_[i] = oa[1], !.oay_[i] = oa[2], !.oaz_[i] = oa[3],
                        !.nx_[i] = n[1], !.ny_[i] = n[2], !.nz_[i] = n[3]]
        r2 == IF ilevel < r.levelmax_
              THEN [r1 EXCEPT !.ox_[i + 1] = WrapAdd(@, d[1]),
                              !.oy_[i + 1] = WrapAdd(@, d[2]),
                              !.oz_[i + 1] = WrapAdd(@, d[3])]
              ELSE r1
    IN  rh_find_new_levelmin(r2)

(***************************************************************************)
(* SpecAdjust: a refinement_hierarchy constructed from one of a few        *)
(* configurations, then at most MaxAdjusts calls of adjust_level.          *)
(***************************************************************************)
MaxAdjusts == 2

AdjustRegions ==
    {<<<<Half(Unit), Unit \div 4>>, <<Half(Unit), Unit \div 4>>, <<Half(Unit), Unit \div 4>>>>,
     <<<<Unit \div 4, Unit \div 8>>, <<Half(Unit), Unit \div 4>>, <<3 * (Unit \div 8), Unit \div 4>>>>}

AdjustConfigs ==
    {Config(p[1], p[2], 1, FALSE, TRUE, t, FALSE, FALSE) :
        p \in LevelPairs, t \in AdjustRegions}

AdjustExtents == {<<1, 1, 1>>, <<2, 2, 2>>, <<4, 4, 4>>}
AdjustOffsets == {<<0, 0, 0>>, <<2, 0, 2>>, <<1, 2, 0>>, <<3, 0, 4>>}

ConstructFew ==
    /\ rh = NoLayout
    /\ \E cf \in AdjustConfigs :
          /\ rh' = refinement_hierarchy(cf)
          /\ lcall' = [op |-> "construct", n |-> 1, cf |-> cf]
    /\ UNCHANGED <<gh, gh2, call, fa, fb, heap, fcall>>

AdjustLevel ==
    /\ IsLayout(rh)
    /\ lcall.n <= MaxAdjusts
    /\ \E ilevel \in 0 .. rh.levelmax_ : \E n \in AdjustExtents : \E oa \in AdjustOffsets :
          /\ rh' = adjust_level(rh, ilevel, n, oa)
          /\ lcall' = [op |-> "adjust_level", n |-> lcall.n + 1, ilevel |-> ilevel,
                       ext |-> n, off |-> oa, d |-> adjust_delta(rh, ilevel, oa)]
    /\ UNCHANGED <<gh, gh2, call, fa, fb, heap, fcall>>

NextAdjust == ConstructFew \/ AdjustLevel

SpecAdjust == InitLayout /\ [][NextAdjust]_vars

(***************************************************************************)
(* Properties of adjust_level, checked under SpecAdjust.                   *)
(***************************************************************************)
\* level i has offset (0,0,0) and extent 2^i on every axis
FullLevel(r, i) ==
    LayoutAbs(r, i) = <<0, 0, 0>> /\ LayoutExt(r, i) = <<Pow2(i), Pow2(i), Pow2(i)>>

\* C14: after an adjust_level call levelmin is the highest level with offset
\* (0,0,0) and extent 2^i on every axis, and 0 if no level above 0 is such.
C14_Levelmin ==
    (lcall.op = "adjust_level" /\ IsLayout(rh)) =>
        /\ \A i \in 1 .. rh.levelmax_ :
              (FullLevel(rh, i) /\ \A k \in (i + 1) .. rh.levelmax_ : ~FullLevel(rh, k))
                  => rh.levelmin_ = i
        /\ (\A i \in 1 .. rh.levelmax_ : ~FullLevel(rh, i)) => rh.levelmin_ = 0

\* relative_offset[l] = absolute_offset[l]/2 - absolute_offset[l-1] on every
\* level l >= 1 and axis, in unsigned 32-bit arithmetic
RelativeConsistent(r) ==
    \A l \in 1 .. r.levelmax_ : \A a \in 1 .. 3 :
        LayoutRel(r, l)[a] = WrapSub(UDiv2(LayoutAbs(r, l)[a]), LayoutAbs(r, l - 1)[a])

\* C15: after the construction and after every adjust_level call the relative
\* offsets are those derived from the absolute ones, whatever the parity and
\* sign of the offset delta; and adjust_level changes the absolute offset and
\* extent of the adjusted level only.
C15_Relative ==
    [][(IsLayout(rh') /\ lcall' # lcall) =>
          /\ RelativeConsistent(rh')
          /\ lcall'.op = "adjust_level" =>
                \A l \in 0 .. rh.levelmax_ :
                    l # lcall'.ilevel =>
                        /\ LayoutAbs(rh', l) = LayoutAbs(rh, l)
                        /\ LayoutExt(rh', l) = LayoutExt(rh, l)
    ]_vars

(***************************************************************************)
(* More properties of the construction, checked under SpecLayout.          *)
(***************************************************************************)
\* the centre of the requested region on axis a, modulo 1, from the
\* configuration: ref_center itself, or ref_offset plus half the extent
Centre(cf, a) ==
    IF cf.center THEN cf.ref[a] % Unit
    ELSE (cf.ref[a] + cf.ref_extent[a] \div 2) % Unit

\* C16: the shift is (0,0,0) when levelmin = levelmax or when no_shift is set
\* and force_shift is not; otherwise it is trunc((0.5 - c) * 2^levelmin) on
\* each axis, c the centre of the region modulo 1, and then the shifted centre
\* lies less than one coarsest cell from 0.5.
C16_Shift ==
    (lcall.op = "construct" /\ IsLayout(rh)) =>
        LET cf == lcall.cf
            nc == Pow2(cf.levelmin)
        IN  \A a \in 1 .. 3 :
                IF cf.levelmin = cf.levelmax \/ (cf.no_shift /\ ~cf.force_shift)
                THEN rh.xshift_[a] = 0
                ELSE /\ rh.xshift_[a] = Trunc((Unit \div 2 - Centre(cf, a)) * nc, Unit)
                     /\ LET off == (Centre(cf, a) * nc + rh.xshift_[a] * Unit)
                                       - (Unit \div 2) * nc
                        IN  off < Unit /\ 0 - off < Unit

\* a layout shifted on some axis although no_shift is set, force_shift being
\* set too, next to one with the same flags that needs no shift
C16_Witness ==
    /\ lcall.op = "construct"
    /\ IsLayout(rh)
    /\ lcall.cf.no_shift /\ lcall.cf.force_shift
    /\ \E a \in 1 .. 3 : rh.xshift_[a] < 0
    /\ \E a \in 1 .. 3 : rh.xshift_[a] = 0

(***************************************************************************)
(* GridHierarchy::cell_pos.  A coordinate h*(offset_abs + i + 0.5), with   *)
(* h = 1/2^ilevel, is kept exactly as <<2*(offset_abs + i) + 1,            *)
(* 2^(ilevel+1)>>.  The result is the three coordinates and whether the    *)
(* message was written to std::cerr.                                       *)
(***************************************************************************)
cell_pos(h, ilevel, i, j, k) ==
    LET den == Pow2(ilevel + 1)
        ppos == <<<<2 * (offset_abs(h, ilevel, 0) + i) + 1, den>>,
                  <<2 * (offset_abs(h, ilevel, 1) + j) + 1, den>>,
                  <<2 * (offset_abs(h, ilevel, 2) + k) + 1, den>>>>
    IN  [ppos |-> ppos,
         warned |-> \E a \in 1 .. 3 : ppos[a][1] >= ppos[a][2]]

(***************************************************************************)
(* SpecPos: a hierarchy built by at most MaxPosCalls calls of              *)
(* create_base_hierarchy, add_patch and cut_patch, and then asked once for *)
(* the position of a cell, ghost cells included.                           *)
(***************************************************************************)
MaxPosCalls == 2

PosCells == {<<0 - 1, 0, 0>>, <<0, 0, 0>>, <<1, 0, 2>>, <<0, 0 - 1, 1>>}

PosBuild == call.n < MaxPosCalls /\ (CreateBase \/ AddPatch \/ CutPatch)

CellPos ==
    /\ call.op # "cell_pos"
    /\ NonEmpty(gh)
    /\ \E ilevel \in 0 .. levelmax(gh) : \E c \in PosCells :
          LET r == cell_pos(gh, ilevel, c[1], c[2], c[3])
          IN  call' = [op |-> "cell_pos", n |-> call.n + 1, ilevel |-> ilevel,
                       cell |-> c, ppos |-> r.ppos, warned |-> r.warned]
    /\ UNCHANGED <<gh, gh2, fa, fb, heap, fcall, rh, lcall>>

NextPos == PosBuild \/ CellPos

SpecPos == Init /\ [][NextPos]_vars

\* C17: cell_pos returns (absolute_offset + index + 0.5) / 2^level on each axis,
\* warns exactly when some coordinate is < 0 or >= 1, and leaves the hierarchy
\* as it was.
C17_CellPos ==
    [][Called("cell_pos") =>
        LET l == call'.ilevel
            c == call'.cell
        IN  /\ \A a \in 1 .. 3 :
                  /\ call'.ppos[a][2] = 2 * Pow2(l)
                  /\ call'.ppos[a][1] = 2 * (AbsOf(gh, l)[a] + c[a]) + 1
            /\ call'.warned <=>
                  \E a \in 1 .. 3 :
                      call'.ppos[a][1] < 0 \/ call'.ppos[a][1] >= call'.ppos[a][2]
            /\ gh' = gh
    ]_vars

\* the largest multiple of m that is <= t, the smallest that is >= t, and the
\* smallest that is > t
MultipleBelow(t, m) == (t \div m) * m

MultipleAbove(t, m) == 0 - (((0 - t) \div m) * m)

MultipleBeyond(t, m) == ((t \div m) + 1) * m

\* the alignment unit of the finest level
FineUnit(cf) == IF cf.align_top THEN Pow2((cf.levelmax - cf.levelmin) + 1) ELSE 2

\* C18 as stated: on the finest level, before the wrap, lo is the largest
\* multiple of m <= trunc(x0 * 2^levelmax) and hi the smallest multiple of m
\* >= trunc((x0 + xl) * 2^levelmax + 1), so an aligned bound stays; and [lo, hi)
\* contains the shifted region.
C18_AlignedNearest ==
    (lcall.op = "construct" /\ IsLayout(rh) /\ lcall.cf.levelmin < lcall.cf.levelmax) =>
        LET cf == lcall.cf
        IN  \A a \in 1 .. 3 :
                /\ FineAligned(cf, a)[1] = MultipleBelow(il_fine(cf, a), FineUnit(cf))
                /\ FineAligned(cf, a)[2] = MultipleAbove(ir_fine(cf, a), FineUnit(cf))
                /\ FineAligned(cf, a)[1] * Unit <= x0shifted(cf, a) * nresmax(cf)
                /\ (x0shifted(cf, a) + cf.ref_extent[a]) * nresmax(cf)
                      <= FineAligned(cf, a)[2] * Unit

\* C18 (amended): lo is the largest multiple of m <= trunc(x0 * 2^levelmax);
\* hi is, without align_to_top, the smallest even number >= trunc((x0 + xl) *
\* 2^levelmax + 1) and, with align_to_top, the smallest multiple of m that is
\* strictly greater than it; [lo, hi) contains the shifted region.
C18_Aligned ==
    (lcall.op = "construct" /\ lcall.cf.levelmin < lcall.cf.levelmax) =>
        LET cf == lcall.cf
        IN  \A a \in 1 .. 3 :
                /\ FineAligned(cf, a)[1] = MultipleBelow(il_fine(cf, a), FineUnit(cf))
                /\ FineAligned(cf, a)[2] =
                      IF cf.align_top
                      THEN MultipleBeyond(ir_fine(cf, a), FineUnit(cf))
                      ELSE MultipleAbove(ir_fine(cf, a), 2)
                /\ FineAligned(cf, a)[1] * Unit <= x0shifted(cf, a) * nresmax(cf)
                /\ (x0shifted(cf, a) + cf.ref_extent[a]) * nresmax(cf)
                      <= FineAligned(cf, a)[2] * Unit

\* a layout aligned to the top grid whose upper bound was a multiple of m
\* already, and whose lower bound was not
C18_Witness ==
    /\ lcall.op = "construct"
    /\ IsLayout(rh)
    /\ lcall.cf.levelmin < lcall.cf.levelmax
    /\ lcall.cf.align_top
    /\ ir_fine(lcall.cf, 1) % FineUnit(lcall.cf) = 0
    /\ il_fine(lcall.cf, 1) % FineUnit(lcall.cf) # 0

\* the padding relation of level l against its parent on axis a, on the
\* unsigned values stored (a negative pattern is a value >= 2^31, larger than
\* any extent)
Padded(r, l, a) ==
    /\ LayoutRel(r, l)[a] >= 0
    /\ LayoutRel(r, l)[a] >= r.padding_
    /\ LayoutRel(r, l)[a] + (LayoutExt(r, l)[a] \div 2) + r.padding_
          <= LayoutExt(r, l - 1)[a]

\* C19: after a construction, for every level l with levelmin + 1 < l <=
\* levelmax and every axis, relative_offset[l] >= padding and
\* relative_offset[l] + extent[l]/2 + padding <= extent[l-1].
C19_Padded ==
    (lcall.op = "construct" /\ IsLayout(rh)) =>
        \A l \in (rh.levelmin_ + 2) .. rh.levelmax_ : \A a \in 1 .. 3 :
            Padded(rh, l, a)

\* C20: every cell that cut_patch reads from the old field lies inside the old
\* field's buffer: on each axis the source index i + (a' - a), 0 <= i < n',
\* lies in [-nbnd, old_extent + nbnd).
C20_ReadsInside ==
    [][Called("cut_patch") =>
        LET l == call'.ilevel
        IN  \A a \in 1 .. 3 : \A i \in 0 .. (call'.ext[a] - 1) :
                /\ WrapAdd(i, call'.d[a]) >= 0 - gh.m_nbnd
                /\ WrapAdd(i, call'.d[a]) < size(gh, l, a - 1) + gh.m_nbnd
    ]_vars

====
